---- MODULE Spec2Model ----
(***************************************************************************)
(* Model of src-tauri/src/main.rs: the Tauri command type_text, which      *)
(* creates an Enigo handle with default settings and types the argument    *)
(* as synthetic keystrokes, and the host shell (main) that dispatches      *)
(* invocations of it.                                                      *)
(*                                                                         *)
(* The program keeps no state of its own.  The state below is the state    *)
(* of the invocations in flight (their position, argument and local        *)
(* variable enigo), the OS resources they touch (the open input handles    *)
(* and the OS input stream), and history variables that record what each   *)
(* invocation did.  The enigo library and the OS are the environment:      *)
(* Enigo::new succeeds or fails, and Enigo::text delivers the characters   *)
(* of its argument one key at a time, each of which succeeds or fails.     *)
(***************************************************************************)
EXTENDS Integers, Sequences, FiniteSets

\* ---- bounds of the model ----
MaxCalls == 2           \* invocations the front end makes
MaxLen == 2             \* longest argument string
MaxKeys == 3            \* characters the front end asks for in total
Alphabet == {"a", "b"}  \* characters an argument is made of

Calls == 1..MaxCalls
NoHandle == 0

RECURSIVE StringsOfLen(_)
StringsOfLen(n) ==
    IF n = 0 THEN {<<>>}
    ELSE {Append(s, c) : s \in StringsOfLen(n - 1), c \in Alphabet}

\* the values the parameter text: String can take
Strings == UNION {StringsOfLen(n) : n \in 0..MaxLen}

VARIABLES
    dispatch,    \* where the host runs commands: "main" thread or "worker" threads
    running,     \* the process is alive
    pc,          \* position of each invocation in type_text
    arg,         \* the parameter text of each invocation
    enigo,       \* the local variable enigo of each invocation
    typed,       \* characters Enigo::text has delivered for the invocation
    stream,      \* the OS input stream: who typed what through which handle
    handles,     \* input handles open in the OS
    nextHandle,  \* identity of the next handle the OS gives out
    created,     \* history: handles each invocation has acquired
    usedBy,      \* history: <<handle, invocation>> for each Enigo::text call
    newCalls,    \* history: Enigo::new calls of each invocation
    textCalls,   \* history: Enigo::text calls of each invocation
    initRes,     \* history: outcome of the invocation's Enigo::new
    failAt,      \* history: key at which Enigo::text failed (0: none)
    faultAt,     \* history: the unwrap that panicked ("none", "new", "text")
    doneAtStart  \* history: invocations that had ended when this one started

vars == <<dispatch, running, pc, arg, enigo, typed, stream, handles,
          nextHandle, created, usedBy, newCalls, textCalls, initRes, failAt,
          faultAt, doneAtStart>>

hist == <<created, usedBy, newCalls, textCalls, initRes, failAt, faultAt,
          doneAtStart>>

\* ---- helpers ----
Active(i) == pc[i] \in {"new", "typing"}
Ended(i) == pc[i] \in {"returned", "panicked"}

\* the keystrokes of the stream that were typed by the invocations in S
RECURSIVE KeysOf(_, _)
KeysOf(s, S) ==
    IF s = <<>> THEN <<>>
    ELSE LET rest == KeysOf(Tail(s), S)
         IN IF Head(s).by \in S THEN <<Head(s).ch>> \o rest ELSE rest

Contribution(i) == KeysOf(stream, {i})

IsPrefix(s, t) == Len(s) <= Len(t) /\ s = SubSeq(t, 1, Len(s))

Init ==
    /\ dispatch \in {"main", "worker"}
    /\ running = TRUE
    /\ pc = [i \in Calls |-> "idle"]
    /\ arg = [i \in Calls |-> <<>>]
    /\ enigo = [i \in Calls |-> NoHandle]
    /\ typed = [i \in Calls |-> 0]
    /\ stream = <<>>
    /\ handles = {}
    /\ nextHandle = 1
    /\ created = [i \in Calls |-> {}]
    /\ usedBy = {}
    /\ newCalls = [i \in Calls |-> 0]
    /\ textCalls = [i \in Calls |-> 0]
    /\ initRes = [i \in Calls |-> "none"]
    /\ failAt = [i \in Calls |-> 0]
    /\ faultAt = [i \in Calls |-> "none"]
    /\ doneAtStart = [i \in Calls |-> {}]

\* ---- the pieces of type_text ----

\* variant: the Result is discarded (let _ = ...) instead of unwrapped
UnwrapIgnore(res) == "value"

\* .unwrap() on a Result: the value of Ok, a panic on Err
Unwrap(res) == IF res = "Ok" THEN "value" ELSE "panic"

RECURSIVE ArgsUpTo(_)
ArgsUpTo(i) == IF i = 0 THEN <<>> ELSE ArgsUpTo(i - 1) \o arg[i]

\* variant: the text is appended to a buffer that is kept across calls
TextArgAccum(i) == ArgsUpTo(i)

\* variant: the text is typed followed by a Return key
TextArgNewline(i) == Append(arg[i], "\n")

\* &text, the string type_text hands to Enigo::text
TextArg(i) == arg[i]

\* variant: the characters are taken from the end of the string
NextKeyReversed(text, n) == text[Len(text) - n]

\* the character Enigo::text types after it has delivered n of them
NextKey(text, n) == text[n + 1]

\* variant: one handle, created once, is shared by all invocations
NewHandleShared(i) == 1

\* the handle Enigo::new returns on success: a new one on every call
NewHandle(i) == nextHandle

\* variant: the handle is leaked (mem::forget, or kept in a static)
DropLeak(i) == handles

\* the OS handles left open once the local enigo of invocation i is dropped
Drop(i) == handles \ {enigo[i]}

\* variant: the error is swallowed and the command returns normally
PanicSwallowed(i, at) ==
    /\ pc' = [pc EXCEPT ![i] = "returned"]
    /\ enigo' = [enigo EXCEPT ![i] = NoHandle]
    /\ handles' = handles \ {enigo[i]}
    /\ UNCHANGED <<running, faultAt>>

\* variant: the failed step is tried again
PanicRetry(i, at) ==
    /\ pc' = [pc EXCEPT ![i] = IF at = "new" THEN "new" ELSE "typing"]
    /\ UNCHANGED <<running, enigo, handles, faultAt>>

\* A panic of invocation i at the unwrap `at`.  Unwinding drops the local
\* enigo.  On the main thread the panic ends the process; on a worker thread
\* it ends the process when the build aborts on panic and only the
\* invocation when it unwinds.  The end of the process ends every other
\* invocation in flight and closes every handle.
Panic(i, at) ==
    /\ faultAt' = [faultAt EXCEPT ![i] = at]
    /\ \E abort \in BOOLEAN :
        /\ dispatch = "main" => abort
        /\ running' = ~abort
        /\ IF abort
           THEN /\ pc' = [j \in Calls |->
                            IF j = i THEN "panicked"
                            ELSE IF Active(j) THEN "aborted" ELSE pc[j]]
                /\ enigo' = [j \in Calls |-> NoHandle]
                /\ handles' = {}
           ELSE /\ pc' = [pc EXCEPT ![i] = "panicked"]
                /\ enigo' = [enigo EXCEPT ![i] = NoHandle]
                /\ handles' = Drop(i)

\* characters the front end has asked for so far
RECURSIVE Asked(_)
Asked(i) == IF i = 0 THEN 0 ELSE Asked(i - 1) + Len(arg[i])

\* the front end invokes type_text(text) and the host starts the invocation:
\* on the main thread when no other invocation is running on it, on a
\* thread of its own otherwise
Invoke(i, text) ==
    /\ running
    /\ pc[i] = "idle"
    /\ \A j \in Calls : j < i => pc[j] # "idle"
    /\ dispatch = "main" => \A j \in Calls : ~Active(j)
    /\ Asked(MaxCalls) + Len(text) <= MaxKeys
    /\ pc' = [pc EXCEPT ![i] = "new"]
    /\ arg' = [arg EXCEPT ![i] = text]
    /\ doneAtStart' = [doneAtStart EXCEPT ![i] = {j \in Calls : Ended(j)}]
    /\ UNCHANGED <<dispatch, running, enigo, typed, stream, handles,
                   nextHandle, created, usedBy, newCalls, textCalls, initRes,
                   failAt, faultAt>>

\* let mut enigo = Enigo::new(&Settings::default()).unwrap();
\* and, with the value, the call enigo.text(&text) on that handle
New(i) ==
    /\ running
    /\ pc[i] = "new"
    /\ newCalls' = [newCalls EXCEPT ![i] = @ + 1]
    /\ \E res \in {"Ok", "Err"} :
        /\ initRes' = [initRes EXCEPT ![i] = res]
        /\ IF res = "Ok"
           THEN /\ nextHandle' = nextHandle + 1
                /\ created' = [created EXCEPT ![i] = @ \cup {NewHandle(i)}]
           ELSE UNCHANGED <<nextHandle, created>>
        /\ IF Unwrap(res) = "value"
           THEN /\ pc' = [pc EXCEPT ![i] = "typing"]
                /\ enigo' = [enigo EXCEPT ![i] =
                                IF res = "Ok" THEN NewHandle(i) ELSE NoHandle]
                /\ handles' = IF res = "Ok" THEN handles \cup {NewHandle(i)}
                              ELSE handles
                /\ textCalls' = [textCalls EXCEPT ![i] = @ + 1]
                /\ usedBy' = usedBy \cup {<<enigo'[i], i>>}
                /\ UNCHANGED <<running, faultAt>>
           ELSE /\ Panic(i, "new")
                /\ UNCHANGED <<textCalls, usedBy>>
    /\ UNCHANGED <<dispatch, arg, typed, stream, failAt, doneAtStart>>

\* Enigo::text delivers the next character as a keystroke
TypeKey(i) ==
    /\ running
    /\ pc[i] = "typing"
    /\ typed[i] < Len(TextArg(i))
    /\ stream' = Append(stream, [by |-> i, h |-> enigo[i],
                                 ch |-> NextKey(TextArg(i), typed[i])])
    /\ typed' = [typed EXCEPT ![i] = @ + 1]
    /\ UNCHANGED <<dispatch, running, pc, arg, enigo, handles, nextHandle,
                   hist>>

\* variant: a character that cannot be delivered is skipped
TextFailSkips(i) ==
    /\ running
    /\ pc[i] = "typing"
    /\ typed[i] < Len(TextArg(i))
    /\ failAt' = [failAt EXCEPT ![i] = typed[i] + 1]
    /\ typed' = [typed EXCEPT ![i] = @ + 1]
    /\ UNCHANGED <<dispatch, running, pc, arg, enigo, stream, handles,
                   nextHandle, created, usedBy, newCalls, textCalls, initRes,
                   faultAt, doneAtStart>>

\* Enigo::text fails to deliver the next character and returns Err, which
\* .unwrap() turns into a panic
TextFail(i) ==
    /\ running
    /\ pc[i] = "typing"
    /\ typed[i] < Len(TextArg(i))
    /\ failAt' = [failAt EXCEPT ![i] = typed[i] + 1]
    /\ IF Unwrap("Err") = "value"
       THEN /\ pc' = [pc EXCEPT ![i] = "returned"]
            /\ enigo' = [enigo EXCEPT ![i] = NoHandle]
            /\ handles' = Drop(i)
            /\ UNCHANGED <<running, faultAt>>
       ELSE Panic(i, "text")
    /\ UNCHANGED <<dispatch, arg, typed, stream, nextHandle, created, usedBy,
                   newCalls, textCalls, initRes, doneAtStart>>

\* Enigo::text has nothing more to type and returns Ok(()); .unwrap() takes
\* the value, the function body ends, enigo is dropped and () is returned
Return(i) ==
    /\ running
    /\ pc[i] = "typing"
    /\ typed[i] >= Len(TextArg(i))
    /\ Unwrap("Ok") = "value"
    /\ pc' = [pc EXCEPT ![i] = "returned"]
    /\ enigo' = [enigo EXCEPT ![i] = NoHandle]
    /\ handles' = Drop(i)
    /\ UNCHANGED <<dispatch, running, arg, typed, stream, nextHandle, created,
                   usedBy, newCalls, textCalls, initRes, failAt, faultAt,
                   doneAtStart>>

\* one step of invocation i inside type_text
Step(i) == New(i) \/ TypeKey(i) \/ TextFail(i) \/ Return(i)

Next ==
    \/ \E i \in Calls, text \in Strings : Invoke(i, text)
    \/ \E i \in Calls : New(i)
    \/ \E i \in Calls : TypeKey(i)
    \/ \E i \in Calls : TextFail(i)
    \/ \E i \in Calls : Return(i)

Spec == Init /\ [][Next]_vars

TypeOK ==
    /\ dispatch \in {"main", "worker"}
    /\ running \in BOOLEAN
    /\ pc \in [Calls -> {"idle", "new", "typing", "returned",
                         "panicked", "aborted"}]
    /\ arg \in [Calls -> Strings]
    /\ \A i \in Calls : typed[i] \in 0..MaxLen
    /\ handles \subseteq 1..MaxCalls

\* ---- properties ----

\* no other invocation ran between the start and the end of invocation i
Alone(i) ==
    \A j \in Calls \ {i} :
        pc[j] = "idle" \/ j \in doneAtStart[i] \/ i \in doneAtStart[j]

\* the keystrokes of invocation i are next to each other in the stream
Contiguous(i) ==
    \A p, q, r \in 1..Len(stream) :
        (p < q /\ q < r /\ stream[p].by = i /\ stream[r].by = i) =>
            stream[q].by = i

\* C1: an invocation type_text(S) that returned normally has typed exactly
\* the characters of S, in the order of S; when no other invocation ran
\* during it, S stands in the stream in one piece.
C1_TypesExactlyText ==
    \A i \in Calls :
        pc[i] = "returned" =>
            /\ Contribution(i) = arg[i]
            /\ typed[i] = Len(arg[i])
            /\ Alone(i) => Contiguous(i)

C1_Witness ==
    \E i \in Calls :
        /\ pc[i] = "returned"
        /\ Alone(i)
        /\ Len(arg[i]) = 2
        /\ arg[i][1] # arg[i][2]

\* C2: when invocation j starts after invocation i has returned and both
\* return normally, the keystrokes of the two in the stream are all of
\* arg[i] followed by all of arg[j]: no key of j precedes a key of i.
C2_SequentialOrder ==
    \A i, j \in Calls :
        (pc[i] = "returned" /\ pc[j] = "returned" /\ i \in doneAtStart[j]) =>
            /\ KeysOf(stream, {i, j}) = arg[i] \o arg[j]
            /\ \A p, q \in 1..Len(stream) :
                (stream[p].by = i /\ stream[q].by = j) => p < q

C2_Witness ==
    /\ pc[1] = "returned" /\ pc[2] = "returned"
    /\ 1 \in doneAtStart[2]
    /\ arg[1] = <<"a", "b">> /\ arg[2] = <<"a">>
    /\ [k \in 1..Len(stream) |-> stream[k].ch] = <<"a", "b", "a">>

\* C3: an invocation whose Enigo::new failed has ended in a panic at that
\* unwrap; it has not returned normally, has not called Enigo::text and has
\* typed nothing.
C3_InitFailureFaults ==
    \A i \in Calls :
        initRes[i] = "Err" =>
            /\ pc[i] = "panicked"
            /\ faultAt[i] = "new"
            /\ textCalls[i] = 0
            /\ typed[i] = 0
            /\ Contribution(i) = <<>>

C3_Witness ==
    \E i \in Calls :
        /\ initRes[i] = "Err"
        /\ pc[i] = "panicked"
        /\ arg[i] # <<>>

C5_HandleInitialisedBeforeUse ==
    /\ \A i \in Calls :
        /\ pc[i] = "typing" =>
            /\ initRes[i] = "Ok"
            /\ enigo[i] # NoHandle
            /\ enigo[i] \in handles \cap created[i]
        /\ textCalls[i] > 0 => (newCalls[i] = 1 /\ initRes[i] = "Ok")
    /\ \A u \in usedBy : u[1] # NoHandle /\ u[1] \in created[u[2]]
    /\ \A k \in 1..Len(stream) :
        /\ stream[k].h # NoHandle
        /\ stream[k].h \in created[stream[k].by]

C5_Witness ==
    \E i \in Calls :
        /\ pc[i] = "typing"
        /\ typed[i] > 0
        /\ enigo[i] \in handles

\* C6: an invocation acquires at most one handle and calls Enigo::text at
\* most once; once it has ended, by return or by a panic at either unwrap,
\* it holds no handle and the handle it acquired is closed; every open
\* handle is held by an invocation in flight.
C6_HandleScopedToCall ==
    /\ \A i \in Calls :
        /\ Cardinality(created[i]) <= 1
        /\ newCalls[i] <= 1
        /\ textCalls[i] <= 1
        /\ ~Active(i) =>
            /\ enigo[i] = NoHandle
            /\ created[i] \cap handles = {}
    /\ handles \subseteq {enigo[i] : i \in {j \in Calls : Active(j)}}

C6_Witness ==
    \E i, j \in Calls :
        /\ pc[i] = "returned" /\ created[i] # {}
        /\ pc[j] = "panicked" /\ faultAt[j] = "text" /\ created[j] # {}

\* C7 (state part): an invocation in which Enigo::new or Enigo::text failed
\* has panicked at that step, made each call once at most, ran no later
\* step and typed nothing after the failure.
C7_FaultState ==
    \A i \in Calls :
        /\ initRes[i] = "Err" =>
            /\ pc[i] = "panicked" /\ faultAt[i] = "new"
            /\ newCalls[i] = 1 /\ textCalls[i] = 0 /\ typed[i] = 0
        /\ failAt[i] > 0 =>
            /\ pc[i] = "panicked" /\ faultAt[i] = "text"
            /\ newCalls[i] = 1 /\ textCalls[i] = 1
            /\ typed[i] = failAt[i] - 1
        /\ pc[i] = "panicked" <=> faultAt[i] # "none"

\* C7 (step part): a panicked invocation takes no further step
C7_FaultStep ==
    \A i \in Calls :
        pc[i] = "panicked" =>
            /\ pc'[i] = "panicked"
            /\ newCalls'[i] = newCalls[i]
            /\ textCalls'[i] = textCalls[i]
            /\ typed'[i] = typed[i]
            /\ KeysOf(stream', {i}) = KeysOf(stream, {i})

\* C7: a failure of Enigo::new or of Enigo::text ends the invocation at
\* once in a panic; the failed step is not retried, no later step of the
\* invocation runs and the invocation never returns normally.
C7_FaultIsFinal == []C7_FaultState /\ [][C7_FaultStep]_vars

C7_Witness ==
    \E i, j \in Calls :
        /\ pc[i] = "panicked" /\ faultAt[i] = "new"
        /\ pc[j] = "panicked" /\ faultAt[j] = "text" /\ typed[j] > 0

\* the outcomes the OS gave invocation i
Outcome(i) == <<initRes[i], failAt[i]>>

\* C8: two ended invocations with the same argument and the same outcomes
\* of Enigo::new and Enigo::text typed the same keystrokes and ended the
\* same way, whatever had been invoked before each of them.
C8_Stateless ==
    \A i, j \in Calls :
        (Ended(i) /\ Ended(j) /\ arg[i] = arg[j] /\ Outcome(i) = Outcome(j)) =>
            /\ Contribution(i) = Contribution(j)
            /\ pc[i] = pc[j]
            /\ faultAt[i] = faultAt[j]

C8_Witness ==
    \E i, j \in Calls :
        /\ i \in doneAtStart[j]
        /\ pc[i] = "returned" /\ pc[j] = "returned"
        /\ arg[i] = arg[j] /\ arg[i] # <<>>

\* C9 (state part): the keystrokes of an invocation are a prefix of its
\* argument; when Enigo::text failed at a key, the invocation panicked and
\* its keystrokes are the characters before that key.
C9_PrefixState ==
    \A i \in Calls :
        /\ IsPrefix(Contribution(i), arg[i])
        /\ failAt[i] > 0 =>
            /\ pc[i] = "panicked" /\ faultAt[i] = "text"
            /\ Contribution(i) = SubSeq(arg[i], 1, failAt[i] - 1)

\* C9 (step part): delivered keystrokes stay in the stream, and an ended
\* invocation adds none
C9_PrefixStep ==
    /\ IsPrefix(stream, stream')
    /\ \A i \in Calls :
        Ended(i) => KeysOf(stream', {i}) = KeysOf(stream, {i})

\* C9: when Enigo::text fails, what the invocation has typed is a prefix of
\* its argument, is not rolled back, is not added to, and the invocation
\* ends in a panic; the keystrokes of any invocation are a prefix of its
\* argument.
C9_PartialInjection == []C9_PrefixState /\ [][C9_PrefixStep]_vars

C9_Witness ==
    \E i \in Calls :
        /\ failAt[i] = 2
        /\ pc[i] = "panicked"
        /\ Len(Contribution(i)) = 1

\* C10: with invocations running concurrently, no handle is created for or
\* used by two invocations, an invocation in flight can always take its next
\* step whatever the others do (nothing is locked), and the keystrokes of an
\* invocation that returned are its argument, in order.
C10_Concurrent ==
    /\ \A u, v \in usedBy : u[1] = v[1] => u[2] = v[2]
    /\ \A i, j \in Calls : i # j => created[i] \cap created[j] = {}
    /\ \A p, q \in 1..Len(stream) :
        stream[p].h = stream[q].h => stream[p].by = stream[q].by
    /\ \A i \in Calls :
        /\ (Active(i) /\ running) => ENABLED Step(i)
        /\ pc[i] = "returned" => Contribution(i) = arg[i]

C10_Witness ==
    /\ dispatch = "worker"
    /\ pc[1] = "returned" /\ pc[2] = "returned"
    /\ Len(stream) = 3
    /\ stream[1].by = 1 /\ stream[2].by = 2 /\ stream[3].by = 1
    /\ stream[1].h # stream[2].h
====
